---- MODULE Spec2Model ----
(***************************************************************************)
(* Model of the tool-dispatch and conversation state machine of            *)
(* RapidataAI/human-use: MCPClient (src/mcp_client.py) and the Streamlit   *)
(* chat engine get_chat_response / main (src/app.py).                      *)
(*                                                                         *)
(* One Streamlit session runs its script top to bottom for each user       *)
(* event, so the handlers below are atomic between the two points where    *)
(* get_chat_response suspends: awaiting the model (client.get_response)    *)
(* and awaiting a tool server (session.call_tool).                         *)
(***************************************************************************)
EXTENDS Integers, Sequences, FiniteSets, TLC

VARIABLES
    sessions,              \* MCPClient.sessions: insertion-ordered dict, as a sequence of [path, tools]
    available_tools,       \* MCPClient.available_tools
    client_model,          \* MCPClient.model
    model,                 \* st.session_state.model (the selectbox value)
    previous_model,        \* st.session_state.previous_model
    messages,              \* st.session_state.messages: the visible message log
    conversation_history,  \* st.session_state.conversation_history: the Transcript
    pc,                    \* where the control flow is: "init" | "raised" | "idle" | "model" | "tool"
                           \* in a session, "chat" | "quit" in and after chat_loop, "closed" after
                           \* cleanup, "decode" | "decoded" | "again" around decode_results
    response,              \* get_chat_response's local `response`: the reply being processed
    content,               \* the tool_use segment whose use_tool call is awaited
    assistant_content,     \* get_chat_response's local `assistant_content` at the tool await
    request,               \* the messages.create request in flight to the model
    inflight,              \* the call_tool request in flight to a tool server
    received,              \* per tool server: how many call_tool requests it has received
    outcome,               \* how the last round ended: "none" | "ok" | "error"
    trace,                 \* events of the current round: "M" model call issued, "T" reply with a
                           \* tool_use received, "F" reply without one received, "D" use_tool called
    calls,                 \* model calls issued so far in the session
    connects,              \* connect_to_server calls made so far
    connect_result,        \* the last connect_to_server call: its argument and how it ended
    result,                \* use_tool's local `result`: what call_tool returned
    tool_result,           \* get_chat_response's local `tool_result`: what use_tool returned
    exit_stack,            \* MCPClient.exit_stack: the paths of the channels it will close
    unreleased,            \* channels held by the exit stack of a client nothing refers to any more
    cli_query,             \* chat_loop's local `query`: the line it has read
    image_call,            \* the image server's last generate_image_from_text call: how many
                           \* were made, its arguments and how it ended
    dir_exists,            \* whether temp/generated_images exists
    files,                 \* the files of temp/generated_images: name |-> content
    generated              \* images that client.images.generate has produced

vars == <<sessions, available_tools, client_model, model, previous_model, messages,
          conversation_history, pc, response, content, assistant_content, request,
          inflight, received, outcome, trace, calls, connects, connect_result, result,
          tool_result, exit_stack, unreleased, cli_query, image_call, dir_exists, files,
          generated>>

(***************************************************************************)
(* Bounds of the model.                                                    *)
(***************************************************************************)
MaxModelCalls == 3
MaxConnects == 2
MaxPieces == 3
MaxImages == 2        \* prompts, and file names, given to one generate_image_from_text call
MaxImageCalls == 1    \* generate_image_from_text calls the image server handles

(***************************************************************************)
(* The environment: tool servers, the model, the user.                     *)
(***************************************************************************)
None == "None"

\* Launch paths the session may be configured with.
Paths == {"a.py", "b.js"}

\* Tool names a server may expose or the model may ask for.
ToolNames == {"x", "y"}

\* A tool as a server's list_tools() reports it. Each server has its own
\* description and schema for a name, so descriptors of two servers differ.
Tool(n, p) == [name |-> n, description |-> p, inputSchema |-> p]

\* The tool lists list_tools() may answer with, as sequences of names.
ToolLists == {<<"x">>, <<"y", "x">>, <<"x", "x", "y">>}

ServerTools(p, ns) == [i \in 1..Len(ns) |-> Tool(ns[i], p)]

Models == {"claude-3-7-sonnet-20250219", "claude-3-5-sonnet-20240620", "claude-3-haiku-20240307"}

DefaultModel == "claude-3-7-sonnet-20250219"

Queries == {<<"q">>}

(***************************************************************************)
(* Sequence helpers.                                                       *)
(***************************************************************************)
RECURSIVE Concat(_)
Concat(ss) == IF ss = <<>> THEN <<>> ELSE Head(ss) \o Concat(Tail(ss))

Last(s) == s[Len(s)]

(***************************************************************************)
(* Server Registry and Tool Catalog (src/mcp_client.py).                   *)
(***************************************************************************)

\* dict item assignment self.sessions[path] = info: a new key goes last, an
\* existing key keeps its place and gets the new value.
DictSet(d, path, info) ==
    IF \E i \in 1..Len(d) : d[i].path = path
    THEN [i \in 1..Len(d) |-> IF d[i].path = path THEN [path |-> path, tools |-> info] ELSE d[i]]
    ELSE Append(d, [path |-> path, tools |-> info])

\* The loop of _update_available_tools that keeps the first tool of each name.
RECURSIVE unique_tools(_, _)
unique_tools(tools, tool_names) ==
    IF tools = <<>> THEN <<>>
    ELSE IF Head(tools).name \in tool_names
         THEN unique_tools(Tail(tools), tool_names)
         ELSE <<Head(tools)>> \o unique_tools(Tail(tools), tool_names \cup {Head(tools).name})

\* Variant: of the tools of one name the last one seen is kept.
update_available_tools_lastwins(sess) ==
    LET all == Concat([i \in 1..Len(sess) |-> sess[i].tools])
        keep == {i \in 1..Len(all) : \A j \in (i + 1)..Len(all) : all[j].name # all[i].name}
        RECURSIVE pick(_)
        pick(i) == IF i > Len(all) THEN <<>>
                   ELSE (IF i \in keep THEN <<all[i]>> ELSE <<>>) \o pick(i + 1)
    IN  pick(1)

\* Variant: the servers are gone through in the order of their paths, not in
\* the order they were registered in.
update_available_tools_sorted(sess) ==
    LET order == <<"a.py", "b.js">>
        sorted == Concat([i \in 1..Len(order) |-> SelectSeq(sess, LAMBDA e : e.path = order[i])])
    IN  unique_tools(Concat([i \in 1..Len(sorted) |-> sorted[i].tools]), {})

\* _update_available_tools: all servers' tools in dict order, duplicates by name dropped.
update_available_tools(sess) ==
    unique_tools(Concat([i \in 1..Len(sess) |-> sess[i].tools]), {})

\* Variant: the scan without its break, so the last server with the name is taken.
RECURSIVE FindServer_nobreak(_, _)
FindServer_nobreak(sess, tool_name) ==
    IF sess = <<>> THEN None
    ELSE IF \E i \in 1..Len(Last(sess).tools) : Last(sess).tools[i].name = tool_name
         THEN Last(sess).path
         ELSE FindServer_nobreak(SubSeq(sess, 1, Len(sess) - 1), tool_name)

\* The scan of use_tool: the path of the first server, in dict order, whose
\* tool list has the name; None when no server has it.
RECURSIVE FindServer(_, _)
FindServer(sess, tool_name) ==
    IF sess = <<>> THEN None
    ELSE IF \E i \in 1..Len(Head(sess).tools) : Head(sess).tools[i].name = tool_name
         THEN Head(sess).path
         ELSE FindServer(Tail(sess), tool_name)

\* get_response's conversion of the catalog to the model API's tool schema list.
anthropic_tools(avail) ==
    [i \in 1..Len(avail) |-> [name |-> avail[i].name,
                              description |-> avail[i].description,
                              input_schema |-> avail[i].inputSchema]]

(***************************************************************************)
(* Result Decoder (src/mcp_client.py, decode_results).                     *)
(*                                                                         *)
(* A text is a sequence of characters. The characters that matter to the   *)
(* unicode_escape codec are kept apart: "BS" is a backslash, "u" the       *)
(* letter u, "9" a hexadecimal digit that is no octal digit, "k" a plain   *)
(* ASCII letter that names no escape, "W" a non-ASCII character of three   *)
(* UTF-8 bytes (such as U+9999) and "L" a character of the Latin-1 upper   *)
(* half (two UTF-8 bytes).                                                 *)
(***************************************************************************)
TextItem(t) == [type |-> "text", text |-> t]
ImageItem == [type |-> "image", data |-> "png"]

CallToolResult(items, err) == [content |-> items, isError |-> err]

SubSeqFrom(s, i) == SubSeq(s, i, Len(s))

\* '\\u' in text
HasMarker(t) == \E i \in 1..(Len(t) - 1) : t[i] = "BS" /\ t[i + 1] = "u"

\* text.encode('utf-8').decode('unicode_escape'): [ok, text]; ok is FALSE
\* where the codec raises UnicodeDecodeError.
RECURSIVE unicode_escape(_)
unicode_escape(t) ==
    IF t = <<>> THEN [ok |-> TRUE, text |-> <<>>]
    ELSE
      LET c == Head(t)
          then(out, rest) ==
              LET r == unicode_escape(rest)
              IN  IF r.ok THEN [ok |-> TRUE, text |-> out \o r.text] ELSE r
      IN  CASE c = "W" -> then(<<"L", "L", "L">>, Tail(t))      \* each UTF-8 byte read as Latin-1
            [] c = "L" -> then(<<"L", "L">>, Tail(t))
            [] c = "BS" ->
                 IF Len(t) = 1 THEN [ok |-> FALSE, text |-> t]   \* \ at end of string
                 ELSE IF t[2] = "BS" THEN then(<<"BS">>, SubSeqFrom(t, 3))
                 ELSE IF t[2] = "u" THEN
                        IF Len(t) >= 6 /\ \A i \in 3..6 : t[i] = "9"
                        THEN then(<<"W">>, SubSeqFrom(t, 7))     \* 香
                        ELSE [ok |-> FALSE, text |-> t]          \* truncated \uXXXX escape
                 ELSE then(<<"BS">>, Tail(t))                    \* unknown escape: kept as it is
            [] OTHER -> then(<<c>>, Tail(t))

\* Variant: a text that fails to unescape is replaced by an empty text.
decode_item_dropped(item) ==
    IF item.type = "text"
    THEN IF HasMarker(item.text)
         THEN LET r == unicode_escape(item.text)
              IN  IF r.ok THEN TextItem(r.text) ELSE TextItem(<<>>)
         ELSE item
    ELSE item

\* One iteration of the loop of decode_results.
decode_item(item) ==
    IF item.type = "text"
    THEN IF HasMarker(item.text)
         THEN LET r == unicode_escape(item.text)
              IN  IF r.ok THEN TextItem(r.text) ELSE item
         ELSE item
    ELSE item

\* Variant: the result is rebuilt without its isError flag.
decode_results_noflag(results) ==
    CallToolResult([i \in 1..Len(results.content) |-> decode_item(results.content[i])],
                   FALSE)

decode_results(results) ==
    CallToolResult([i \in 1..Len(results.content) |-> decode_item(results.content[i])],
                   results.isError)

\* What call_tool may answer with.
ToolResults ==
    { CallToolResult(<<TextItem(<<"k">>)>>, FALSE),
      CallToolResult(<<TextItem(<<"BS", "u", "9", "9", "9", "9">>), ImageItem>>, TRUE) }

\* The pieces texts are made of: a plain letter, a non-ASCII character, a
\* lone backslash, a whole \uXXXX escape, one cut short, and the letter u.
Pieces ==
    { <<"k">>, <<"W">>, <<"BS">>, <<"BS", "u", "9", "9", "9", "9">>, <<"BS", "u", "9">>, <<"u">> }

\* The texts made of at most n pieces.
RECURSIVE TextsUpTo(_)
TextsUpTo(n) ==
    IF n = 0 THEN {<<>>}
    ELSE LET shorter == TextsUpTo(n - 1)
         IN  shorter \cup {t \o q : t \in shorter, q \in Pieces}

\* The results decode_results is applied to: a text alone, a text before an
\* image, and a text after an escaped text and an image.
RawResults ==
    { CallToolResult(items, err) :
        items \in UNION { { <<TextItem(t)>>,
                            <<TextItem(t), ImageItem>>,
                            <<TextItem(<<"BS", "u", "9", "9", "9", "9">>), ImageItem, TextItem(t)>> } :
                          t \in TextsUpTo(MaxPieces) },
        err \in BOOLEAN }

(***************************************************************************)
(* The model-calling interface: replies of the model.                      *)
(***************************************************************************)
TextBlock(t) == [type |-> "text", text |-> t]
ToolUseBlock(id, n, in) == [type |-> "tool_use", id |-> id, name |-> n, input |-> in]

\* The API gives every tool_use block an id of its own: the i-th block of the
\* reply to the c-th model call.
CallId(c, i) == 2 * c + i

\* The replies the model may give to the c-th call.
Replies(c) ==
    { <<>>,
      <<TextBlock(<<"h">>)>>,
      <<TextBlock(<<>>)>>,
      <<TextBlock(<<"h">>), TextBlock(<<"i">>)>>,
      <<ToolUseBlock(CallId(c, 0), "x", "p")>>,
      <<TextBlock(<<"h">>), ToolUseBlock(CallId(c, 0), "y", "r"), TextBlock(<<"i">>)>>,
      <<ToolUseBlock(CallId(c, 0), "y", "p"), ToolUseBlock(CallId(c, 1), "x", "r")>> }

NoRequest == [kind |-> "none"]

\* The locals of get_chat_response while they hold nothing: no reply received
\* yet, no tool_use being executed.
NoBlock == [type |-> "none"]
NoResponse == <<NoBlock>>

\* No call_tool result is held.
NoResult == [kind |-> "none"]

\* No connect_to_server call has been made by the running initialisation.
NoConnect == [path |-> None, outcome |-> "none", at |-> "none"]

(***************************************************************************)
(* Image server (src/image_generation.py): the generate_image_from_text    *)
(* tool and the directory temp/generated_images it writes to.              *)
(***************************************************************************)

\* What a call is given: prompts, and file names with and without the suffix.
Prompts == {"p", "q"}
FileNames == {"f", "f.png"}

\* Lists of at most n elements of S.
ListsUpTo(S, n) == UNION {[1..k -> S] : k \in 0..n}

\* What temp/generated_images can hold before a call, with content "old".
ExistingFiles == {"f.png", "old.png"}

\* A directory with no file in it.
NoFiles == [n \in {} |-> "old"]

\* No call has been made.
NoImageCall == [n |-> 0, prompts |-> <<>>, file_names |-> <<>>, clear |-> FALSE,
                outcome |-> "none", file_paths |-> <<>>]

\* file_name.endswith(".png"), over the names of the model.
endswith_png(file_name) == file_name \in {"f.png", "old.png"}

\* file_name + ".png", over the names of the model.
add_png(file_name) ==
    CASE file_name = "f" -> "f.png"
      [] OTHER -> "other.png"

\* The name generate_and_save_image saves under.
png_name(file_name) == IF endswith_png(file_name) THEN file_name ELSE add_png(file_name)

\* file_path: the directory and the name in it.
file_path(file_name) == [dir |-> "temp/generated_images", name |-> png_name(file_name)]

\* open(file_path, "wb") and write: the file is created or replaced.
write(fs, name, bytes) == [n \in DOMAIN fs \cup {name} |-> IF n = name THEN bytes ELSE fs[n]]

\* The directory after generate_and_save_image ran for the first `done` pairs
\* of zip(prompts, file_names), in order; the image is named by its prompt.
RECURSIVE save_images(_, _, _, _)
save_images(fs, prompts, file_names, done) ==
    IF done = 0 THEN fs
    ELSE write(save_images(fs, prompts, file_names, done - 1),
               png_name(file_names[done]), prompts[done])

(***************************************************************************)
(* Conversation Engine (src/app.py, get_chat_response and main).           *)
(***************************************************************************)

\* MCPClient.get_response: the request sent to messages.create.
get_response(cm, history, avail) ==
    [kind |-> "create", model |-> cm, messages |-> history, tools |-> anthropic_tools(avail)]

\* The first loop over response.content: the texts of the text blocks, joined.
text_content(resp) ==
    Concat([i \in 1..Len(resp) |-> IF resp[i].type = "text" THEN resp[i].text ELSE <<>>])

\* Variant: the loop goes on after a tool_use, so the last one is the one acted on.
FirstToolUse_last(resp) ==
    IF \E i \in 1..Len(resp) : resp[i].type = "tool_use"
    THEN CHOOSE i \in 1..Len(resp) :
            /\ resp[i].type = "tool_use"
            /\ \A j \in (i + 1)..Len(resp) : resp[j].type # "tool_use"
    ELSE 0

\* Index of the first tool_use block of a reply, 0 when it has none: the
\* second loop over response.content leaves at that block (break).
FirstToolUse(resp) ==
    IF \E i \in 1..Len(resp) : resp[i].type = "tool_use"
    THEN CHOOSE i \in 1..Len(resp) :
            /\ resp[i].type = "tool_use"
            /\ \A j \in 1..(i - 1) : resp[j].type # "tool_use"
    ELSE 0

\* What the second loop appends to assistant_content for one block.
\* Variant: the input of a tool_use is not copied.
content_param_noinput(block) ==
    IF block.type = "text"
    THEN [type |-> "text", text |-> block.text]
    ELSE [type |-> "tool_use", id |-> block.id, name |-> block.name, input |-> ""]

content_param(block) ==
    IF block.type = "text"
    THEN [type |-> "text", text |-> block.text]
    ELSE [type |-> "tool_use", id |-> block.id, name |-> block.name, input |-> block.input]

\* Variant: every block of the reply is put in assistant_content.
assistant_content_upto_all(resp, n) == [i \in 1..Len(resp) |-> content_param(resp[i])]

\* assistant_content when the second loop has gone through blocks 1..n.
assistant_content_upto(resp, n) == [i \in 1..n |-> content_param(resp[i])]

user_turn(query) ==
    [role |-> "user", content |-> <<[type |-> "text", text |-> query]>>]

assistant_turn(ac) == [role |-> "assistant", content |-> ac]

\* Variant: only the text items of the result are stored.
tool_result_turn_textonly(c, tr) ==
    [role |-> "user",
     content |-> <<[type |-> "tool_result", tool_use_id |-> c.id,
                    content |-> SelectSeq(tr.content, LAMBDA it : it.type = "text")]>>]

tool_result_turn(c, tr) ==
    [role |-> "user",
     content |-> <<[type |-> "tool_result", tool_use_id |-> c.id, content |-> tr.content]>>]

user_msg(query) == [role |-> "user", content |-> query, type |-> "text"]

assistant_text_msg(txt) == [role |-> "assistant", content |-> txt, type |-> "text"]

\* Variant: one assistant message per text block.
show_text_perblock(msgs, resp) ==
    msgs \o [i \in 1..Len(SelectSeq(resp, LAMBDA b : b.type = "text")) |->
                assistant_text_msg(SelectSeq(resp, LAMBDA b : b.type = "text")[i].text)]

\* The text of a reply is shown and logged as one assistant message, when
\* there is any.
show_text(msgs, resp) ==
    IF text_content(resp) # <<>>
    THEN Append(msgs, assistant_text_msg(text_content(resp)))
    ELSE msgs

tool_call_msg(c) ==
    [role |-> "assistant", content |-> c.input, type |-> "tool_call", name |-> c.name, id |-> c.id]

\* str.strip()
RECURSIVE lstrip(_)
lstrip(t) == IF t # <<>> /\ Head(t) = " " THEN lstrip(Tail(t)) ELSE t
RECURSIVE rstrip(_)
rstrip(t) == IF t # <<>> /\ Last(t) = " " THEN rstrip(SubSeq(t, 1, Len(t) - 1)) ELSE t
strip(t) == rstrip(lstrip(t))

\* ", ".join(text_items)
RECURSIVE join(_)
join(ts) ==
    IF ts = <<>> THEN <<>>
    ELSE IF Len(ts) = 1 THEN ts[1]
    ELSE ts[1] \o <<",", " ">> \o join(Tail(ts))

\* formatted_result: the stripped texts of the items that have a text.
formatted_result(tr) ==
    LET items == tr.content
        withText == SelectSeq(items, LAMBDA it : it.type = "text")
    IN  join([i \in 1..Len(withText) |-> strip(withText[i].text)])

tool_result_msg(c, tr) ==
    [role |-> "assistant", content |-> formatted_result(tr),
     type |-> "tool_result", for_tool |-> c.name]

(***************************************************************************)
(* Initial state: session state initialised, MCPClient constructed, no     *)
(* server connected yet.                                                   *)
(***************************************************************************)
Init ==
    /\ sessions = <<>>
    /\ available_tools = <<>>
    /\ client_model = DefaultModel
    /\ model = DefaultModel
    /\ previous_model = DefaultModel
    /\ messages = <<>>
    /\ conversation_history = <<>>
    /\ pc = "init"
    /\ response = NoResponse
    /\ content = NoBlock
    /\ assistant_content = <<>>
    /\ request = NoRequest
    /\ inflight = NoRequest
    /\ received = [p \in Paths |-> 0]
    /\ outcome = "none"
    /\ trace = <<>>
    /\ calls = 0
    /\ connects = 0
    /\ connect_result = NoConnect
    /\ exit_stack = <<>>
    /\ unreleased = {}
    /\ cli_query = None
    /\ image_call = NoImageCall
    /\ dir_exists = FALSE
    /\ files = NoFiles
    /\ generated = 0
    /\ result = NoResult
    /\ tool_result = NoResult

registry == <<sessions, available_tools>>
held == <<exit_stack, unreleased, cli_query>>
image_server == <<image_call, dir_exists, files, generated>>
session_ui == <<model, previous_model, client_model>>
round == <<pc, response, content, assistant_content, request, inflight, received,
           outcome, trace, calls, result, tool_result>>

\* Variant: the session is registered and the catalog is not recomputed.
Connect_stale(path, ns) ==
    /\ pc = "init"
    /\ connects < MaxConnects
    /\ sessions' = DictSet(sessions, path, ServerTools(path, ns))
    /\ connects' = connects + 1
    /\ connect_result' = [path |-> path, outcome |-> "ok", at |-> "none"]
    /\ exit_stack' = Append(exit_stack, path)
    /\ UNCHANGED <<available_tools, session_ui, messages, conversation_history, round,
                   unreleased, cli_query, image_server>>

\* connect_to_server succeeding: the server launched, the handshake done and
\* list_tools() answered ns.
Connect(path, ns) ==
    /\ pc = "init"
    /\ connects < MaxConnects
    /\ sessions' = DictSet(sessions, path, ServerTools(path, ns))
    /\ available_tools' = update_available_tools(sessions')
    /\ connects' = connects + 1
    /\ connect_result' = [path |-> path, outcome |-> "ok", at |-> "none"]
    /\ exit_stack' = Append(exit_stack, path)
    /\ UNCHANGED <<session_ui, messages, conversation_history, round, unreleased, cli_query,
                   image_server>>

\* The steps of connect_to_server at which the server can make it raise:
\* launching the transport, the handshake, listing the tools.
Steps == {"launch", "initialize", "list_tools"}

\* Variant: the session is registered as soon as the handshake is done, with
\* no tool yet, and list_tools() is asked afterwards.
ConnectFails_registered(path, step) ==
    /\ pc = "init"
    /\ connects < MaxConnects
    /\ pc' = "raised"
    /\ connects' = connects + 1
    /\ connect_result' = [path |-> path, outcome |-> "raised", at |-> step]
    /\ exit_stack' = IF step = "launch" THEN exit_stack ELSE Append(exit_stack, path)
    /\ sessions' = IF step = "list_tools" THEN DictSet(sessions, path, <<>>) ELSE sessions
    /\ available_tools' = update_available_tools(sessions')
    /\ UNCHANGED <<session_ui, messages, conversation_history, response, content,
                   assistant_content, request, inflight, received, outcome, trace, calls,
                   result, tool_result, unreleased, cli_query, image_server>>

\* connect_to_server raising at one of its steps: the exception leaves the
\* method before the assignment to self.sessions.
ConnectFails(path, step) ==
    /\ pc = "init"
    /\ connects < MaxConnects
    /\ pc' = "raised"
    /\ connects' = connects + 1
    /\ connect_result' = [path |-> path, outcome |-> "raised", at |-> step]
    /\ exit_stack' = IF step = "launch" THEN exit_stack ELSE Append(exit_stack, path)
    /\ UNCHANGED <<registry, session_ui, messages, conversation_history, response, content,
                   assistant_content, request, inflight, received, outcome, trace, calls,
                   result, tool_result, unreleased, cli_query, image_server>>

\* A path with a suffix connect_to_server does not take.
OtherPaths == {"c.txt"}

\* server_script_path.endswith('.py') and endswith('.js'), on the paths above.
is_python(path) == path \in {"a.py"}
is_js(path) == path \in {"b.js"}

\* Variant: the suffix is looked at once the transport has been opened.
ConnectUnsupported_launched(path) ==
    /\ pc = "init"
    /\ connects < MaxConnects
    /\ path # ""
    /\ ~(is_python(path) \/ is_js(path))
    /\ pc' = "raised"
    /\ connects' = connects + 1
    /\ connect_result' = [path |-> path, outcome |-> "raised", at |-> "suffix"]
    /\ exit_stack' = Append(exit_stack, path)
    /\ UNCHANGED <<registry, session_ui, messages, conversation_history, response, content,
                   assistant_content, request, inflight, received, outcome, trace, calls,
                   result, tool_result, unreleased, cli_query, image_server>>

\* connect_to_server called with a path that ends in neither .py nor .js:
\* ValueError, raised before the server parameters are built.
ConnectUnsupported(path) ==
    /\ pc = "init"
    /\ connects < MaxConnects
    /\ path # ""
    /\ ~(is_python(path) \/ is_js(path))
    /\ pc' = "raised"
    /\ connects' = connects + 1
    /\ connect_result' = [path |-> path, outcome |-> "raised", at |-> "suffix"]
    /\ UNCHANGED <<registry, session_ui, messages, conversation_history, response, content,
                   assistant_content, request, inflight, received, outcome, trace, calls,
                   result, tool_result, held, image_server>>

\* connect_to_server called with an empty path: it logs an error and returns.
ConnectEmpty ==
    /\ pc = "init"
    /\ connects < MaxConnects
    /\ connects' = connects + 1
    /\ connect_result' = [path |-> "", outcome |-> "returned", at |-> "none"]
    /\ UNCHANGED <<registry, session_ui, messages, conversation_history, round, held, image_server>>

\* main: the exception of a failed connect leaves initialize_client and main
\* before the client is stored and before client_initialized is set, so the
\* next run of the script starts over with a new MCPClient(model).
InitAborted ==
    /\ pc = "raised"
    /\ pc' = "init"
    /\ sessions' = <<>>
    /\ available_tools' = <<>>
    /\ client_model' = model
    /\ connect_result' = NoConnect
    /\ exit_stack' = <<>>
    /\ unreleased' = unreleased \cup {exit_stack[i] : i \in 1..Len(exit_stack)}
    /\ UNCHANGED <<model, previous_model, messages, conversation_history, response, content,
                   assistant_content, request, inflight, received, outcome, trace, calls,
                   connects, result, tool_result, cli_query, image_server>>

\* main: initialize_client has returned; the client is stored in the session.
ClientInitialized ==
    /\ pc = "init"
    /\ pc' = "idle"
    /\ connect_result' = NoConnect
    /\ UNCHANGED <<registry, session_ui, messages, conversation_history, response, content,
                   assistant_content, request, inflight, received, outcome, trace, calls,
                   connects, result, tool_result, held, image_server>>

\* Variant: the transcript is cut to its last two turns before the new
\* utterance is appended.
UserInput_windowed(query) ==
    /\ pc = "idle"
    /\ calls < MaxModelCalls
    /\ messages' = Append(messages, user_msg(query))
    /\ conversation_history' =
          Append(IF Len(conversation_history) > 2
                 THEN SubSeq(conversation_history, Len(conversation_history) - 1,
                             Len(conversation_history))
                 ELSE conversation_history, user_turn(query))
    /\ request' = get_response(client_model, conversation_history', available_tools)
    /\ pc' = "model"
    /\ calls' = calls + 1
    /\ trace' = <<"M">>
    /\ outcome' = "none"
    /\ response' = NoResponse
    /\ UNCHANGED <<registry, session_ui, content, assistant_content, inflight, received,
                   connects, connect_result, result, tool_result, held, image_server>>

\* Variant: an input is taken while a tool call of the running round is
\* still awaited.
UserInput_anytime(query) ==
    /\ pc \in {"idle", "tool"}
    /\ calls < MaxModelCalls
    /\ messages' = Append(messages, user_msg(query))
    /\ conversation_history' = Append(conversation_history, user_turn(query))
    /\ request' = get_response(client_model, conversation_history', available_tools)
    /\ pc' = "model"
    /\ calls' = calls + 1
    /\ trace' = <<"M">>
    /\ outcome' = "none"
    /\ response' = NoResponse
    /\ UNCHANGED <<registry, session_ui, content, assistant_content, inflight, received,
                   connects, connect_result, result, tool_result, held, image_server>>

\* main on a chat input, and get_chat_response up to its first await.
UserInput(query) ==
    /\ pc = "idle"
    /\ calls < MaxModelCalls
    /\ messages' = Append(messages, user_msg(query))
    /\ conversation_history' = Append(conversation_history, user_turn(query))
    /\ request' = get_response(client_model, conversation_history', available_tools)
    /\ pc' = "model"
    /\ calls' = calls + 1
    /\ trace' = <<"M">>
    /\ outcome' = "none"
    /\ response' = NoResponse
    /\ UNCHANGED <<registry, session_ui, content, assistant_content, inflight, received,
                   connects, connect_result, result, tool_result, held, image_server>>

\* Variant: without the last break of the loop, a reply with no block at all
\* leaves the while loop spinning on the same response.
LoopExit_nobreak(ac) ==
    /\ conversation_history' =
          IF ac # <<>> THEN Append(conversation_history, assistant_turn(ac))
          ELSE conversation_history
    /\ pc' = IF ac # <<>> THEN "idle" ELSE "loop"
    /\ outcome' = IF ac # <<>> THEN "ok" ELSE outcome
    /\ trace' = Append(trace, "F")
    /\ UNCHANGED <<content, assistant_content, inflight, received, calls>>

\* The body of the while loop on a reply without tool_use: the round ends.
LoopExit(ac) ==
    /\ conversation_history' =
          IF ac # <<>> THEN Append(conversation_history, assistant_turn(ac))
          ELSE conversation_history
    /\ pc' = "idle"
    /\ outcome' = "ok"
    /\ trace' = Append(trace, "F")
    /\ UNCHANGED <<content, assistant_content, inflight, received, calls>>

\* Variant: the assistant turn is appended before use_tool is called.
DispatchRaises_stored(c) ==
    /\ pc' = "idle"
    /\ outcome' = "error"
    /\ trace' = trace \o <<"T", "D">>
    /\ conversation_history' =
          Append(conversation_history, [role |-> "assistant", content |-> <<content_param(c)>>])
    /\ UNCHANGED <<content, assistant_content, inflight, received, calls>>

\* use_tool raising ValueError: nothing catches it before main, which shows
\* an error; the round is over.
DispatchRaises(c) ==
    /\ pc' = "idle"
    /\ outcome' = "error"
    /\ trace' = trace \o <<"T", "D">>
    /\ UNCHANGED <<conversation_history, content, assistant_content, inflight, received, calls>>

\* Variant: a cap on the tool rounds of one user input; at the cap the round
\* ends as if the reply had been final.
DispatchSends_capped(c, ac, server) ==
    IF Len(SelectSeq(trace, LAMBDA e : e = "D")) >= 1
    THEN /\ pc' = "idle"
         /\ outcome' = "ok"
         /\ trace' = Append(trace, "T")
         /\ UNCHANGED <<conversation_history, content, assistant_content, inflight, received, calls>>
    ELSE /\ calls < MaxModelCalls
         /\ inflight' = [kind |-> "call_tool", server |-> server, name |-> c.name, arguments |-> c.input]
         /\ received' = [received EXCEPT ![server] = @ + 1]
         /\ content' = c
         /\ assistant_content' = ac
         /\ pc' = "tool"
         /\ trace' = trace \o <<"T", "D">>
         /\ UNCHANGED <<conversation_history, outcome, calls>>

\* use_tool sending call_tool(tool_name, tool_args) to the server it found.
DispatchSends(c, ac, server) ==
    /\ calls < MaxModelCalls
    /\ inflight' = [kind |-> "call_tool", server |-> server, name |-> c.name, arguments |-> c.input]
    /\ received' = [received EXCEPT ![server] = @ + 1]
    /\ content' = c
    /\ assistant_content' = ac
    /\ pc' = "tool"
    /\ trace' = trace \o <<"T", "D">>
    /\ UNCHANGED <<conversation_history, outcome, calls>>

\* The model's reply arrives: one pass of the while loop of get_chat_response,
\* up to its end or to the await of use_tool.
ModelReply(resp) ==
    /\ pc = "model"
    /\ response' = resp
    /\ request' = NoRequest
    /\ result' = NoResult
    /\ tool_result' = NoResult
    /\ LET shown == show_text(messages, resp)
           k == FirstToolUse(resp)
       IN  IF k = 0
           THEN /\ messages' = shown
                /\ LoopExit(assistant_content_upto(resp, Len(resp)))
           ELSE /\ messages' = Append(shown, tool_call_msg(resp[k]))
                /\ LET server == FindServer(sessions, resp[k].name)
                   IN  IF server = None
                       THEN DispatchRaises(resp[k])
                       ELSE DispatchSends(resp[k], assistant_content_upto(resp, k), server)
    /\ UNCHANGED <<registry, session_ui, connects, connect_result, held, image_server>>

\* Variant: the failure is recorded in the transcript as an assistant turn.
ModelError_recorded ==
    /\ pc = "model"
    /\ pc' = "idle"
    /\ outcome' = "error"
    /\ request' = NoRequest
    /\ result' = NoResult
    /\ tool_result' = NoResult
    /\ conversation_history' =
          Append(conversation_history, assistant_turn(<<TextBlock(<<"e">>)>>))
    /\ UNCHANGED <<registry, session_ui, messages, response, content,
                   assistant_content, inflight, received, trace, calls, connects, connect_result,
                   held, image_server>>

\* messages.create raises: the exception leaves get_chat_response and main
\* shows it with st.error.
ModelError ==
    /\ pc = "model"
    /\ pc' = "idle"
    /\ outcome' = "error"
    /\ request' = NoRequest
    /\ result' = NoResult
    /\ tool_result' = NoResult
    /\ UNCHANGED <<registry, session_ui, messages, conversation_history, response, content,
                   assistant_content, inflight, received, trace, calls, connects, connect_result,
                   held, image_server>>

\* Variant: the two appends in the other order.
AppendToolTurns_swapped(history, ac, c, tr) ==
    history \o <<tool_result_turn(c, tr), assistant_turn(ac)>>

\* The two turns appended after a tool call has returned.
AppendToolTurns(history, ac, c, tr) ==
    history \o <<assistant_turn(ac), tool_result_turn(c, tr)>>

\* call_tool returns raw: the rest of use_tool and of the tool_use branch,
\* up to the next await of the model.
ToolReturn(raw) ==
    /\ pc = "tool"
    /\ result' = raw
    /\ tool_result' = decode_results(result')
    /\ messages' = Append(messages, tool_result_msg(content, tool_result'))
    /\ conversation_history' =
          AppendToolTurns(conversation_history, assistant_content, content, tool_result')
    /\ request' = get_response(client_model, conversation_history', available_tools)
    /\ pc' = "model"
    /\ calls' = calls + 1
    /\ trace' = Append(trace, "M")
    /\ inflight' = NoRequest
    /\ content' = NoBlock
    /\ assistant_content' = <<>>
    /\ UNCHANGED <<registry, session_ui, response, received, outcome, connects, connect_result,
                   held, image_server>>

\* Variant: a call_tool that raised is sent once more before giving up.
ToolError_retry ==
    /\ pc = "tool"
    /\ IF received[inflight.server] < MaxModelCalls
       THEN /\ received' = [received EXCEPT ![inflight.server] = @ + 1]
            /\ UNCHANGED <<pc, outcome, inflight, content, assistant_content>>
       ELSE /\ pc' = "idle"
            /\ outcome' = "error"
            /\ inflight' = NoRequest
            /\ content' = NoBlock
            /\ assistant_content' = <<>>
            /\ UNCHANGED received
    /\ UNCHANGED <<registry, session_ui, messages, conversation_history, response, request,
                   trace, calls, connects, connect_result, result, tool_result, held, image_server>>

\* call_tool raises: the exception leaves use_tool and get_chat_response.
ToolError ==
    /\ pc = "tool"
    /\ pc' = "idle"
    /\ outcome' = "error"
    /\ inflight' = NoRequest
    /\ content' = NoBlock
    /\ assistant_content' = <<>>
    /\ UNCHANGED <<registry, session_ui, messages, conversation_history, response, request,
                   received, trace, calls, connects, connect_result, result, tool_result, held,
                   image_server>>

\* Variant: the button clears the transcript and leaves the visible log.
NewConversation_historyonly ==
    /\ pc = "idle"
    /\ conversation_history' = <<>>
    /\ UNCHANGED <<registry, session_ui, messages, round, connects, connect_result, held,
                   image_server>>

\* The "New Conversation" button of main.
NewConversation ==
    /\ pc = "idle"
    /\ messages' = <<>>
    /\ conversation_history' = <<>>
    /\ UNCHANGED <<registry, session_ui, round, connects, connect_result, held, image_server>>

\* Variant: a model switch replaces the client by a new MCPClient(model),
\* which has no server connected.
on_model_change_newclient(m) ==
    /\ pc = "idle"
    /\ m # model
    /\ model' = m
    /\ messages' = <<>>
    /\ conversation_history' = <<>>
    /\ previous_model' = model'
    /\ client_model' = model'
    /\ sessions' = <<>>
    /\ available_tools' = <<>>
    /\ UNCHANGED <<round, connects, connect_result, held, image_server>>

\* Variant: the callback clears the conversation and leaves the client's
\* model as it is.
on_model_change_keepclient(m) ==
    /\ pc = "idle"
    /\ m # model
    /\ model' = m
    /\ IF previous_model # model'
       THEN /\ messages' = <<>>
            /\ conversation_history' = <<>>
            /\ previous_model' = model'
            /\ UNCHANGED client_model
       ELSE UNCHANGED <<messages, conversation_history, previous_model, client_model>>
    /\ UNCHANGED <<registry, round, connects, connect_result, held, image_server>>

\* The selectbox bound to session_state.model is set to m, then its
\* on_change callback on_model_change runs. The selectbox is drawn after the
\* client has been initialised, so session_state.client is set when it runs.
on_model_change(m) ==
    /\ pc = "idle"
    /\ m # model
    /\ model' = m
    /\ IF previous_model # model'
       THEN /\ messages' = <<>>
            /\ conversation_history' = <<>>
            /\ previous_model' = model'
            /\ client_model' = model'
       ELSE UNCHANGED <<messages, conversation_history, previous_model, client_model>>
    /\ UNCHANGED <<registry, round, connects, connect_result, held, image_server>>

\* A session of the app whose connects succeed; StartSpec below has the
\* session start with connects that fail.
Next ==
    \/ \E path \in Paths, ns \in ToolLists : Connect(path, ns)
    \/ ClientInitialized
    \/ \E query \in Queries : UserInput(query)
    \/ \E resp \in Replies(calls) : ModelReply(resp)
    \/ ModelError
    \/ \E raw \in ToolResults : ToolReturn(raw)
    \/ ToolError
    \/ NewConversation
    \/ \E m \in Models : on_model_change(m)

Spec == Init /\ [][Next]_vars

\* The session when neither the model-calling interface nor a tool server
\* raises, and every call that is awaited returns in the end.
NextNoError ==
    \/ \E path \in Paths, ns \in ToolLists : Connect(path, ns)
    \/ ClientInitialized
    \/ \E query \in Queries : UserInput(query)
    \/ \E resp \in Replies(calls) : ModelReply(resp)
    \/ \E raw \in ToolResults : ToolReturn(raw)
    \/ NewConversation
    \/ \E m \in Models : on_model_change(m)

LiveSpec ==
    /\ Init
    /\ [][NextNoError]_vars
    /\ WF_vars(\E resp \in Replies(calls) : ModelReply(resp))
    /\ WF_vars(\E raw \in ToolResults : ToolReturn(raw))

\* The start of a session of the app, with connects that may fail: main up to
\* the point where the client is stored.
StartNext ==
    \/ \E path \in Paths, ns \in ToolLists : Connect(path, ns)
    \/ \E path \in Paths, step \in Steps : ConnectFails(path, step)
    \/ \E path \in OtherPaths : ConnectUnsupported(path)
    \/ InitAborted
    \/ ClientInitialized

StartSpec == Init /\ [][StartNext]_vars

\* mcp_client.main enters chat_loop once its connects have returned.
chat_loop ==
    /\ pc = "init"
    /\ pc' = "chat"
    /\ connect_result' = NoConnect
    /\ UNCHANGED <<registry, session_ui, messages, conversation_history, response, content,
                   assistant_content, request, inflight, received, outcome, trace, calls,
                   connects, result, tool_result, held, image_server>>

\* chat_loop reads 'quit': the loop ends.
CliQuit ==
    /\ pc = "chat"
    /\ cli_query' = "quit"
    /\ pc' = "quit"
    /\ UNCHANGED <<registry, session_ui, messages, conversation_history, response, content,
                   assistant_content, request, inflight, received, outcome, trace, calls,
                   connects, connect_result, result, tool_result, exit_stack, unreleased,
                   image_server>>

\* chat_loop reads 'clear': client.reset_conversation() is no attribute of
\* MCPClient, the AttributeError is caught by the loop, which prints it and
\* goes on.
CliClear ==
    /\ pc = "chat"
    /\ cli_query' = "clear"
    /\ outcome' = "error"
    /\ UNCHANGED <<registry, session_ui, messages, conversation_history, pc, response, content,
                   assistant_content, request, inflight, received, trace, calls,
                   connects, connect_result, result, tool_result, exit_stack, unreleased,
                   image_server>>

\* chat_loop reads any other line and awaits client.get_response(query); the
\* reply is dropped, an exception is printed; either way the loop goes on.
CliQuery(q, ok) ==
    /\ pc = "chat"
    /\ calls < MaxModelCalls
    /\ calls' = calls + 1
    /\ cli_query' = q
    /\ outcome' = IF ok THEN "ok" ELSE "error"
    /\ UNCHANGED <<registry, session_ui, messages, conversation_history, pc, response, content,
                   assistant_content, request, inflight, received, trace,
                   connects, connect_result, result, tool_result, exit_stack, unreleased,
                   image_server>>

\* cleanup, as the finally clause of mcp_client.main calls it: it closes the
\* exit stack and leaves self.sessions and self.available_tools alone.
cleanup ==
    /\ pc \in {"init", "raised", "chat", "quit"}
    /\ pc' = "closed"
    /\ exit_stack' = <<>>
    /\ UNCHANGED <<registry, session_ui, messages, conversation_history, response, content,
                   assistant_content, request, inflight, received, outcome, trace, calls,
                   connects, connect_result, result, tool_result, unreleased, cli_query,
                   image_server>>

\* MCPClient on its own, as mcp_client.main drives it, under a caller that
\* may pass any path to connect_to_server.
ClientNext ==
    \/ \E path \in Paths, ns \in ToolLists : Connect(path, ns)
    \/ \E path \in Paths, step \in Steps : ConnectFails(path, step)
    \/ \E path \in OtherPaths : ConnectUnsupported(path)
    \/ ConnectEmpty
    \/ chat_loop
    \/ CliQuit
    \/ CliClear
    \/ \E q \in {"q"}, ok \in BOOLEAN : CliQuery(q, ok)
    \/ cleanup

ClientSpec == Init /\ [][ClientNext]_vars

\* decode_results on its own: it is given any of RawResults, and then its own
\* output.
DecodeInit ==
    /\ result \in RawResults
    /\ tool_result = NoResult
    /\ pc = "decode"
    /\ sessions = <<>>
    /\ available_tools = <<>>
    /\ client_model = DefaultModel
    /\ model = DefaultModel
    /\ previous_model = DefaultModel
    /\ messages = <<>>
    /\ conversation_history = <<>>
    /\ response = NoResponse
    /\ content = NoBlock
    /\ assistant_content = <<>>
    /\ request = NoRequest
    /\ inflight = NoRequest
    /\ received = [p \in Paths |-> 0]
    /\ outcome = "none"
    /\ trace = <<>>
    /\ calls = 0
    /\ connects = 0
    /\ connect_result = NoConnect
    /\ exit_stack = <<>>
    /\ unreleased = {}
    /\ cli_query = None
    /\ image_call = NoImageCall
    /\ dir_exists = FALSE
    /\ files = NoFiles
    /\ generated = 0

Decode ==
    /\ pc = "decode"
    /\ tool_result' = decode_results(result)
    /\ pc' = "decoded"
    /\ UNCHANGED <<registry, session_ui, messages, conversation_history, response, content,
                   assistant_content, request, inflight, received, outcome, trace, calls,
                   connects, connect_result, result, held, image_server>>

DecodeAgain ==
    /\ pc = "decoded"
    /\ result' = tool_result
    /\ tool_result' = decode_results(result')
    /\ pc' = "again"
    /\ UNCHANGED <<registry, session_ui, messages, conversation_history, response, content,
                   assistant_content, request, inflight, received, outcome, trace, calls,
                   connects, connect_result, held, image_server>>

DecodeNext ==
    \/ Decode
    \/ DecodeAgain

DecodeSpec == DecodeInit /\ [][DecodeNext]_vars

\* The image server on its own: temp/generated_images is absent, or holds
\* any of ExistingFiles, and nothing of the client moves.
ImageInit ==
    /\ pc = "image"
    /\ image_call = NoImageCall
    /\ dir_exists \in BOOLEAN
    /\ files \in {[n \in S |-> "old"] : S \in IF dir_exists THEN SUBSET ExistingFiles ELSE {{}}}
    /\ generated = 0
    /\ sessions = <<>>
    /\ available_tools = <<>>
    /\ client_model = DefaultModel
    /\ model = DefaultModel
    /\ previous_model = DefaultModel
    /\ messages = <<>>
    /\ conversation_history = <<>>
    /\ response = NoResponse
    /\ content = NoBlock
    /\ assistant_content = <<>>
    /\ request = NoRequest
    /\ inflight = NoRequest
    /\ received = [p \in Paths |-> 0]
    /\ outcome = "none"
    /\ trace = <<>>
    /\ calls = 0
    /\ connects = 0
    /\ connect_result = NoConnect
    /\ result = NoResult
    /\ tool_result = NoResult
    /\ exit_stack = <<>>
    /\ unreleased = {}
    /\ cli_query = None

client_at_rest == <<registry, session_ui, messages, conversation_history, pc, round, connects,
                    connect_result, held>>

\* generate_image_from_text with the length test after the directory is made
\* and cleared.
generate_image_from_text_latecheck(prompts, file_names, clear_directory_before_generation, fails_at) ==
    /\ pc = "image"
    /\ image_call.n < MaxImageCalls
    /\ fails_at \in 0..Len(prompts)
    /\ LET call == [n |-> image_call.n + 1, prompts |-> prompts, file_names |-> file_names,
                    clear |-> clear_directory_before_generation]
           cleared == IF clear_directory_before_generation THEN NoFiles ELSE files
           done == IF fails_at = 0 THEN Len(prompts) ELSE fails_at - 1
       IN  /\ dir_exists' = TRUE
           /\ IF Len(prompts) # Len(file_names)
              THEN /\ image_call' = call @@ [outcome |-> "ValueError", file_paths |-> <<>>]
                   /\ files' = cleared
                   /\ generated' = generated
              ELSE /\ files' = save_images(cleared, prompts, file_names, done)
                   /\ generated' = generated + done
                   /\ image_call' = call @@
                        IF fails_at = 0
                        THEN [outcome |-> "returned",
                              file_paths |-> [i \in 1..done |-> file_path(file_names[i])]]
                        ELSE [outcome |-> "raised", file_paths |-> <<>>]
    /\ UNCHANGED client_at_rest

\* generate_image_from_text(prompts, file_names, clear_directory_before_generation):
\* the lengths are compared first; then the directory is made, cleared if
\* asked, and one image per pair is generated and saved, in order. The call
\* has no await: it runs to its end or to the first exception, which
\* fails_at names: 0 for none, k when the k-th generate_and_save_image raises
\* (the images before it are saved).
generate_image_from_text(prompts, file_names, clear_directory_before_generation, fails_at) ==
    /\ pc = "image"
    /\ image_call.n < MaxImageCalls
    /\ fails_at \in 0..Len(prompts)
    /\ LET call == [n |-> image_call.n + 1, prompts |-> prompts, file_names |-> file_names,
                    clear |-> clear_directory_before_generation]
           cleared == IF clear_directory_before_generation THEN NoFiles ELSE files
           done == IF fails_at = 0 THEN Len(prompts) ELSE fails_at - 1
       IN  IF Len(prompts) # Len(file_names)
           THEN /\ image_call' = call @@ [outcome |-> "ValueError", file_paths |-> <<>>]
                /\ UNCHANGED <<dir_exists, files, generated>>
           ELSE /\ dir_exists' = TRUE
                /\ files' = save_images(cleared, prompts, file_names, done)
                /\ generated' = generated + done
                /\ image_call' = call @@
                     IF fails_at = 0
                     THEN [outcome |-> "returned",
                           file_paths |-> [i \in 1..done |-> file_path(file_names[i])]]
                     ELSE [outcome |-> "raised", file_paths |-> <<>>]
    /\ UNCHANGED client_at_rest

ImageNext ==
    \E prompts \in ListsUpTo(Prompts, MaxImages), file_names \in ListsUpTo(FileNames, MaxImages),
       clear \in BOOLEAN, fails_at \in 0..MaxImages :
        generate_image_from_text(prompts, file_names, clear, fails_at)

ImageSpec == ImageInit /\ [][ImageNext]_vars

(***************************************************************************)
(* Properties.                                                             *)
(***************************************************************************)

\* Positions <<turn, segment>> of the segments of one type in a transcript.
SegmentsOfType(h, type) ==
    {p \in UNION {{<<i, j>> : j \in 1..Len(h[i].content)} : i \in 1..Len(h)} :
        h[p[1]].content[p[2]].type = type}

Segment(h, p) == h[p[1]].content[p[2]]

\* Every tool_use of h has exactly one tool_result with its id, in a later
\* turn, and every tool_result has its tool_use in an earlier turn.
Paired(h) ==
    /\ \A u \in SegmentsOfType(h, "tool_use") :
          LET rs == {r \in SegmentsOfType(h, "tool_result") :
                        Segment(h, r).tool_use_id = Segment(h, u).id}
          IN  /\ Cardinality(rs) = 1
              /\ \A r \in rs : r[1] > u[1]
    /\ \A r \in SegmentsOfType(h, "tool_result") :
          \E u \in SegmentsOfType(h, "tool_use") :
              /\ Segment(h, u).id = Segment(h, r).tool_use_id
              /\ u[1] < r[1]

\* C1 (transcript pairing): in the transcript of every model call the engine
\* issues, each tool_use segment is matched by exactly one tool_result segment
\* with the same call id, in a later turn, and each tool_result segment has
\* its tool_use before it.
C1_TranscriptPairing ==
    request.kind = "create" => Paired(request.messages)

\* A model call whose transcript holds two tool calls and their results.
C1_Witness ==
    /\ request.kind = "create"
    /\ Cardinality(SegmentsOfType(request.messages, "tool_use")) >= 2

\* Positions <<server, tool>> at which the registry exposes a tool named n.
Exposed(sess, n) ==
    {p \in UNION {{<<i, j>> : j \in 1..Len(sess[i].tools)} : i \in 1..Len(sess)} :
        sess[p[1]].tools[p[2]].name = n}

LexLess(p, q) == p[1] < q[1] \/ (p[1] = q[1] /\ p[2] < q[2])

\* The first position, in registration order and then in the server's own
\* order, at which n is exposed.
Discovery(sess, n) ==
    CHOOSE p \in Exposed(sess, n) : \A q \in Exposed(sess, n) : p = q \/ LexLess(p, q)

\* C2 (catalog dedup): available_tools holds each exposed tool name exactly
\* once; the entry of a name is the descriptor of the earliest-registered
\* server exposing it; entries stand in discovery order.
C2_CatalogDedup ==
    /\ \A i, j \in 1..Len(available_tools) :
          i # j => available_tools[i].name # available_tools[j].name
    /\ \A n \in ToolNames :
          Exposed(sessions, n) # {} <=> \E i \in 1..Len(available_tools) : available_tools[i].name = n
    /\ \A i \in 1..Len(available_tools) :
          LET p == Discovery(sessions, available_tools[i].name)
          IN  available_tools[i] = sessions[p[1]].tools[p[2]]
    /\ \A i, j \in 1..Len(available_tools) :
          i < j => LexLess(Discovery(sessions, available_tools[i].name),
                           Discovery(sessions, available_tools[j].name))

\* Two connected servers expose "x", and the second one lists "y" before it.
C2_Witness ==
    /\ Len(sessions) = 2
    /\ \A i \in 1..2 : \E j \in 1..Len(sessions[i].tools) : sessions[i].tools[j].name = "x"
    /\ sessions[2].tools[1].name = "y"

\* The block of a reply at which the engine stops: its first tool_use.
IsFirstToolUse(resp, k) ==
    /\ k \in 1..Len(resp)
    /\ resp[k].type = "tool_use"
    /\ \A j \in 1..(k - 1) : resp[j].type # "tool_use"

\* C3 (dispatch routing): a use_tool of a name that some connected server owns
\* sends one call_tool, with the name and the arguments the model gave, to the
\* first server in connection order whose tool list has the name; no other
\* server receives a message, and no other step sends one.
C3_DispatchRouting ==
    [][ IF pc = "model" /\ response' # response
           /\ \E k \in 1..Len(response') :
                 IsFirstToolUse(response', k) /\ Exposed(sessions, response'[k].name) # {}
        THEN \E k \in 1..Len(response') :
                 /\ IsFirstToolUse(response', k)
                 /\ LET owner == sessions[Discovery(sessions, response'[k].name)[1]].path
                    IN  /\ inflight' = [kind |-> "call_tool", server |-> owner,
                                        name |-> response'[k].name,
                                        arguments |-> response'[k].input]
                        /\ received' = [received EXCEPT ![owner] = @ + 1]
        ELSE received' = received ]_vars

\* A call is in flight for a tool that two connected servers expose.
C3_Witness ==
    /\ pc = "tool"
    /\ Len(sessions) = 2
    /\ \A i \in 1..2 : \E j \in 1..Len(sessions[i].tools) : sessions[i].tools[j].name = inflight.name

\* A reply arrives from the model in this step.
ReplyArrives == pc = "model" /\ response' # response

HasToolUse(resp) == \E i \in 1..Len(resp) : resp[i].type = "tool_use"

\* C4 (unknown tool), as claimed: when the first tool the reply asks for is
\* owned by no connected server, the engine appends a tool_result for that
\* call id marked is_error and calls the model again.
C4_UnknownToolFedBack ==
    [][ (ReplyArrives
           /\ \E k \in 1..Len(response') :
                 IsFirstToolUse(response', k) /\ Exposed(sessions, response'[k].name) = {})
        => /\ pc' = "model"
           /\ request'.kind = "create"
           /\ \E k \in 1..Len(response') :
                 /\ IsFirstToolUse(response', k)
                 /\ Last(conversation_history').role = "user"
                 /\ Last(conversation_history').content[1].type = "tool_result"
                 /\ Last(conversation_history').content[1].tool_use_id = response'[k].id
                 /\ Last(conversation_history').content[1].is_error = TRUE ]_vars

C6_LoopExit ==
    [][ /\ (pc # "idle" /\ pc' = "idle" /\ outcome' = "ok")
           => (ReplyArrives /\ ~HasToolUse(response'))
        /\ (ReplyArrives
              /\ \E k \in 1..Len(response') :
                    IsFirstToolUse(response', k) /\ Exposed(sessions, response'[k].name) # {})
           => pc' = "tool" ]_vars

\* A round that ended without error after two tool rounds.
C6_Witness ==
    /\ pc = "idle"
    /\ outcome = "ok"
    /\ Len(SelectSeq(trace, LAMBDA e : e = "D")) >= 2

\* C7 (round termination): when every model call and every tool call returns
\* without error and the model ends up giving a reply without tool calls,
\* every round started by a user utterance reaches idle again.
C7_RoundTerminates == (pc \in {"model", "tool"}) ~> (pc = "idle")

\* A round of two tool rounds has come back to idle.
C7_Witness ==
    /\ pc = "idle"
    /\ trace # <<>>
    /\ Last(trace) = "F"
    /\ Len(SelectSeq(trace, LAMBDA e : e = "D")) >= 2

\* A round's events when it went through k tool rounds and then ended:
\* M (T D M)^k F.
RoundOf(t, k) ==
    /\ Len(t) = 3 * k + 2
    /\ t[1] = "M"
    /\ \A g \in 0..(k - 1) : t[3 * g + 2] = "T" /\ t[3 * g + 3] = "D" /\ t[3 * g + 4] = "M"
    /\ t[Len(t)] = "F"

\* C8 (dispatch count): a round that ends without error after k replies with
\* a tool call and one reply without has made k dispatches and k + 1 model
\* calls, one dispatch between each two consecutive model calls; the step that
\* ends it logs the text of the final reply as one assistant text message.
C8_DispatchCount ==
    /\ [](pc = "idle" /\ outcome = "ok" => \E k \in 0..MaxModelCalls : RoundOf(trace, k))
    /\ [][ (pc # "idle" /\ pc' = "idle" /\ outcome' = "ok" /\ text_content(response') # <<>>)
           => messages' = Append(messages, [role |-> "assistant", type |-> "text",
                                            content |-> text_content(response')]) ]_vars

\* The scenario of one tool call and then a text reply, back at idle.
C8_Witness ==
    /\ pc = "idle"
    /\ outcome = "ok"
    /\ trace = <<"M", "T", "D", "M", "F">>
    /\ Last(messages).type = "text"
    /\ Last(messages).role = "assistant"
    /\ messages[Len(messages) - 1].type = "tool_result"

\* C9 (reset): a model switch empties the transcript and the visible log; any
\* step that empties or shortens one of them leaves both empty; and the user
\* utterance that follows makes the transcript the one turn of that utterance,
\* which is what the model is sent, with no tool call pending.
C9_Reset ==
    [][ /\ model' # model => (conversation_history' = <<>> /\ messages' = <<>>)
        /\ (Len(conversation_history') < Len(conversation_history)
              \/ Len(messages') < Len(messages))
           => (conversation_history' = <<>> /\ messages' = <<>>)
        /\ (conversation_history = <<>> /\ conversation_history' # <<>>)
           => /\ Len(conversation_history') = 1
              /\ conversation_history'[1].role = "user"
              /\ Len(conversation_history'[1].content) = 1
              /\ conversation_history'[1].content[1].type = "text"
              /\ conversation_history'[1].content[1].text \in Queries
              /\ request'.messages = conversation_history'
              /\ pc' = "model"
              /\ content' = NoBlock
              /\ assistant_content' = <<>> ]_vars

\* A conversation with a tool round was reset, and the next utterance is on
\* its way to the model.
C9_Witness ==
    /\ pc = "model"
    /\ Len(conversation_history) = 1
    /\ \E p \in Paths : received[p] >= 1
    /\ calls >= 3

\* C10 (reset frame): a model switch and a reset leave the registry and the
\* catalog as they are.
C10_ResetFrame ==
    [][ (model' # model
           \/ Len(conversation_history') < Len(conversation_history)
           \/ Len(messages') < Len(messages))
        => (sessions' = sessions /\ available_tools' = available_tools) ]_vars

\* The model was switched in a session with two servers, after a tool call.
C10_Witness ==
    /\ model # DefaultModel
    /\ Len(sessions) = 2
    /\ available_tools # <<>>
    /\ \E p \in Paths : received[p] >= 1
    /\ conversation_history = <<>>

\* C11 (failed connect): a connect_to_server call that raises, whichever of
\* its steps failed, leaves the Session Registry and the Tool Catalog as they
\* were, so every tool name is routed after it as it was before it.
C11_FailedConnect ==
    [][(pc = "init" /\ pc' = "raised") =>
          /\ connect_result'.outcome = "raised"
          /\ sessions' = sessions
          /\ available_tools' = available_tools
          /\ \A n \in ToolNames : FindServer(sessions', n) = FindServer(sessions, n)]_vars

\* A server is connected, and a second connect of the same path has failed
\* while its tools were listed.
C11_Witness ==
    /\ pc = "raised"
    /\ connect_result.at = "list_tools"
    /\ Len(sessions) = 1
    /\ sessions[1].path = connect_result.path
    /\ available_tools # <<>>

\* C12 (initialization tolerance): a server that fails to connect at session
\* start is not fatal: the session goes on with the client it had, which
\* holds every server that had connected.
C12_InitializationTolerance ==
    [][pc = "raised" => (pc' \in {"init", "idle"} /\ sessions' = sessions
                         /\ available_tools' = available_tools)]_vars

\* C13 (empty identifier): connect_to_server called with an empty path ends
\* with a failure its caller observes.
C13_EmptyIdentifier ==
    connect_result.path = "" => connect_result.outcome = "raised"

\* The tool names some registered server exposes.
ExposedNames(sess) == {n \in ToolNames : Exposed(sess, n) # {}}

\* C14 (catalog freshness): the tool list of every model call in flight is
\* the first-seen-wins union of the tool lists of the registered servers: one
\* schema per exposed name, taken from the first server exposing it, in
\* discovery order. Whenever a model call or an invoke can be made, the
\* catalog names exactly the tools the registry routes.
C14_CatalogFreshness ==
    /\ request.kind = "create" =>
          /\ Len(request.tools) = Cardinality(ExposedNames(sessions))
          /\ \A i \in 1..Len(request.tools) :
                /\ request.tools[i].name \in ExposedNames(sessions)
                /\ LET p == Discovery(sessions, request.tools[i].name)
                       t == sessions[p[1]].tools[p[2]]
                   IN  request.tools[i] = [name |-> t.name, description |-> t.description,
                                           input_schema |-> t.inputSchema]
          /\ \A i, j \in 1..Len(request.tools) :
                i < j => LexLess(Discovery(sessions, request.tools[i].name),
                                 Discovery(sessions, request.tools[j].name))
    /\ pc \in {"idle", "model", "tool"} =>
          /\ {available_tools[i].name : i \in 1..Len(available_tools)} = ExposedNames(sessions)
          /\ \A n \in ToolNames :
                FindServer(sessions, n) # None <=> n \in ExposedNames(sessions)

\* A model call is in flight after a second server has registered a tool the
\* first one does not expose, next to one that it does.
C14_Witness ==
    /\ request.kind = "create"
    /\ Len(sessions) = 2
    /\ Len(request.tools) = 2
    /\ request.tools[1].description = sessions[1].path
    /\ request.tools[2].description = sessions[2].path
    /\ \E j \in 1..Len(sessions[2].tools) :
          sessions[2].tools[j].name = request.tools[1].name

\* C15 (idempotent decode): decode_results applied to its own output gives
\* that output back.
C15_IdempotentDecode ==
    pc = "again" => tool_result = result

\* C16 (decode frame): the output of decode_results has the isError flag of
\* its input and as many items, of the same types in the same order; every
\* item that is no text, and every text without the marker, is the input's.
C16_DecodeFrame ==
    (pc \in {"decoded", "again"}) =>
        /\ tool_result.isError = result.isError
        /\ Len(tool_result.content) = Len(result.content)
        /\ \A i \in 1..Len(result.content) :
              LET in == result.content[i]
                  out == tool_result.content[i]
              IN  /\ out.type = in.type
                  /\ in.type # "text" => out = in
                  /\ (in.type = "text" /\ ~HasMarker(in.text)) => out = in
                  /\ in.type = "text" => DOMAIN out = DOMAIN in

\* An error result of three items has been decoded: its first text has
\* changed, its image has not, and its last text, which has a backslash and a
\* non-ASCII character and no marker, has not either.
C16_Witness ==
    /\ pc = "decoded"
    /\ result.isError
    /\ Len(result.content) = 3
    /\ tool_result.content[1] # result.content[1]
    /\ result.content[3].text = <<"BS", "W">>

\* C17 (decode failure): a text item whose unescaping fails stands in the
\* output of decode_results as it was given, in its position, and the decoder
\* returns on every input.
C17_DecodeFailure ==
    /\ pc = "decode" => ENABLED Decode
    /\ pc = "decoded" =>
          /\ Len(tool_result.content) = Len(result.content)
          /\ \A i \in 1..Len(result.content) :
                LET in == result.content[i]
                IN  (in.type = "text" /\ HasMarker(in.text) /\ ~unicode_escape(in.text).ok)
                        => tool_result.content[i] = in

\* A result has been decoded whose first text was unescaped and whose last
\* text, a letter before an escape cut short, was not.
C17_Witness ==
    /\ pc = "decoded"
    /\ Len(result.content) = 3
    /\ tool_result.content[1].text = <<"W">>
    /\ result.content[3].text = <<"k", "BS", "u", "9">>
    /\ tool_result.content[3].text = <<"k", "BS", "u", "9">>

\* C18 (model call failure): when a model call ends without a reply, on the
\* first call of a round or on a later one, the round is over, the error is
\* shown, and the transcript is the one the failing call was issued with.
C18_ModelCallFailure ==
    [][(pc = "model" /\ ~ReplyArrives) =>
          /\ pc' = "idle"
          /\ outcome' = "error"
          /\ request.kind = "create"
          /\ conversation_history' = request.messages
          /\ request' = NoRequest]_vars

\* The model call issued after a tool result has failed.
C18_Witness ==
    /\ pc = "idle"
    /\ outcome = "error"
    /\ trace = <<"M", "T", "D", "M">>
    /\ Last(conversation_history).content[1].type = "tool_result"

\* No two turns in a row have the same role.
Alternates(h) == \A i \in 1..(Len(h) - 1) : h[i].role # h[i + 1].role

\* C19 (retry after a model call failure): the model call issued for the user
\* input that follows a round aborted by a model call failure carries a
\* transcript in which user and assistant turns alternate and every tool
\* call has its result.
C19_RetryConsistent ==
    [][(pc = "idle" /\ outcome = "error" /\ trace # <<>> /\ Last(trace) = "M" /\ pc' = "model") =>
          /\ Alternates(request'.messages)
          /\ Paired(request'.messages)]_vars

\* The call_tool requests all servers have received.
RECURSIVE TotalOver(_, _)
TotalOver(rec, S) ==
    IF S = {} THEN 0
    ELSE LET p == CHOOSE q \in S : TRUE
         IN  rec[p] + TotalOver(rec, S \ {p})

Total(rec) == TotalOver(rec, DOMAIN rec)

\* C20 (one exchange per invocation): no step sends more than one call_tool;
\* a use_tool that resolves to a server sends one, whether or not the
\* transcript already holds the result of a call with the same name and
\* arguments; the reply or the failure of a call_tool ends the exchange, and
\* after a failure the round is over and nothing has been sent again.
C20_OneExchange ==
    [][ /\ Total(received') - Total(received) \in {0, 1}
        /\ (ReplyArrives /\ \E k \in 1..Len(response') :
                IsFirstToolUse(response', k) /\ FindServer(sessions, response'[k].name) # None)
              => /\ Total(received') = Total(received) + 1
                 /\ pc' = "tool"
                 /\ inflight'.kind = "call_tool"
        /\ pc = "tool" =>
              /\ received' = received
              /\ inflight' = NoRequest
              /\ pc' \in {"model", "idle"}
              /\ pc' = "idle" => outcome' = "error" ]_vars

\* A call has been answered; a second call with the same tool name and
\* arguments was sent and failed: two requests were received in all.
C20_Witness ==
    /\ pc = "idle"
    /\ outcome = "error"
    /\ trace # <<>>
    /\ Last(trace) = "D"
    /\ Total(received) = 2
    /\ \E u \in SegmentsOfType(conversation_history, "tool_use"), k \in 1..Len(response) :
          /\ IsFirstToolUse(response, k)
          /\ Segment(conversation_history, u).name = response[k].name
          /\ Segment(conversation_history, u).input = response[k].input
          /\ Segment(conversation_history, u).id # response[k].id

\* a occurs in b as a run of consecutive characters.
Infix(a, b) == \E d \in 0..(Len(b) - Len(a)) : SubSeq(b, d + 1, d + Len(a)) = a

\* The turns a step has appended to the transcript.
Appended == SubSeq(conversation_history', Len(conversation_history) + 1,
                   Len(conversation_history'))

\* C21 (text segments): once a reply has been processed (at once when it has
\* no tool call, when the tool has returned otherwise), each of its text
\* segments, before or after a tool call, is stored in an assistant turn
\* appended to the transcript and, when it is not empty, is part of an
\* assistant text message of the visible log.
C21_TextSegments ==
    [][ LET final == ReplyArrives /\ ~HasToolUse(response')
            returned == pc = "tool" /\ pc' = "model"
            resp == IF returned THEN response ELSE response'
        IN  (final \/ returned) =>
              \A i \in 1..Len(resp) : resp[i].type = "text" =>
                 /\ \E t \in 1..Len(Appended) :
                       /\ Appended[t].role = "assistant"
                       /\ \E j \in 1..Len(Appended[t].content) :
                             Appended[t].content[j] = [type |-> "text", text |-> resp[i].text]
                 /\ resp[i].text # <<>> =>
                       \E m \in 1..Len(messages') :
                          /\ messages'[m].role = "assistant"
                          /\ messages'[m].type = "text"
                          /\ Infix(resp[i].text, messages'[m].content) ]_vars

\* C22 (reply without tool calls): a reply with no tool call, a reply with no
\* segment at all included, appends one assistant turn to the transcript and
\* leaves the session idle.
C22_FinalReply ==
    [][ (ReplyArrives /\ ~HasToolUse(response')) =>
          /\ pc' = "idle"
          /\ Len(Appended) = 1
          /\ Appended[1].role = "assistant" ]_vars

\* C23 (verbatim echo): the transcript of the model request issued after a
\* tool has returned is the transcript as it was, then an assistant turn
\* whose tool_use segment is the block the model emitted (same id, name and
\* input), then a turn whose tool_result carries that id.
C23_VerbatimEcho ==
    [][ (pc = "tool" /\ pc' = "model") =>
          \E k \in 1..Len(response) :
             /\ IsFirstToolUse(response, k)
             /\ LET h == request'.messages
                    n == Len(h)
                IN  /\ n = Len(conversation_history) + 2
                    /\ SubSeq(h, 1, n - 2) = conversation_history
                    /\ h[n - 1].role = "assistant"
                    /\ Len(h[n - 1].content) = k
                    /\ h[n - 1].content[k] =
                          [type |-> "tool_use", id |-> response[k].id,
                           name |-> response[k].name, input |-> response[k].input]
                    /\ h[n].content[1].type = "tool_result"
                    /\ h[n].content[1].tool_use_id = response[k].id ]_vars

\* The second request of a round is in flight; the reply it follows had a
\* text segment before its tool call.
C23_Witness ==
    /\ pc = "model"
    /\ tool_result # NoResult
    /\ Len(response) = 3
    /\ response[2].type = "tool_use"
    /\ request.messages[Len(request.messages) - 1].content[2].input = "r"

\* h is the beginning of g.
IsPrefix(h, g) == Len(h) <= Len(g) /\ SubSeq(g, 1, Len(h)) = h

\* C24 (append-only transcript): every step leaves the transcript as it was,
\* appends turns at its end, or empties it; a step that empties a transcript
\* that held turns is no step of the engine: it leaves the round alone and is
\* either a change of model or changes nothing but the two logs.
C24_AppendOnly ==
    [][ /\ \/ IsPrefix(conversation_history, conversation_history')
           \/ conversation_history' = <<>>
        /\ ~IsPrefix(conversation_history, conversation_history') =>
              /\ pc = "idle"
              /\ UNCHANGED <<round, registry>>
              /\ model' # model \/ UNCHANGED session_ui ]_vars

\* A round went through a tool call and ended, the transcript was emptied,
\* and a new round has appended its first turn.
C24_Witness ==
    /\ pc = "model"
    /\ Len(conversation_history) = 1
    /\ calls = 3
    /\ Len(messages) = 1
    /\ messages[1].role = "user"
    /\ Total(received) = 1

\* C25 (one request in flight): a model call and a tool call are never
\* outstanding together; a model call is issued only when no model call is
\* outstanding and leaves no tool call outstanding; a tool call is issued
\* only by the step that receives the model's reply, when no tool call is
\* outstanding, and it is one call.
C25_OneInFlight ==
    [][ /\ ~(request' # NoRequest /\ inflight' # NoRequest)
        /\ (request' # request /\ request' # NoRequest) =>
              /\ request = NoRequest
              /\ inflight' = NoRequest
        /\ (inflight' # inflight /\ inflight' # NoRequest) =>
              /\ inflight = NoRequest
              /\ request # NoRequest
              /\ request' = NoRequest
              /\ Total(received') = Total(received) + 1
        /\ (pc' = "model") <=> (request' # NoRequest)
        /\ (pc' = "tool") <=> (inflight' # NoRequest) ]_vars

\* The model call that follows a tool result is outstanding, and the tool
\* call is not any more.
C25_Witness ==
    /\ pc = "model"
    /\ trace = <<"M", "T", "D", "M">>
    /\ request # NoRequest
    /\ inflight = NoRequest
    /\ Total(received) = 1

\* C26 (shutdown releases channels): when an entry point is left, by cleanup
\* or because a connect has failed, no channel that was acquired is still
\* held: not on the exit stack, and not by a client that was dropped.
C26_ShutdownReleases ==
    [][ (pc' = "closed" \/ (pc = "raised" /\ pc' # "raised")) =>
          /\ exit_stack' = <<>>
          /\ unreleased' = {} ]_vars

\* C27 (connections destroyed on cleanup): after cleanup the registry holds
\* no connection, so no tool name is routed.
C27_CleanupEmptiesRegistry ==
    pc = "closed" =>
        /\ sessions = <<>>
        /\ \A n \in ToolNames : FindServer(sessions, n) = None

\* C28 (command-line 'clear'): a 'clear' read by chat_loop ends without an
\* error, leaves the conversation history empty, and the loop goes on.
C28_CliClear ==
    [][ (pc = "chat" /\ cli_query' = "clear" /\ pc' # "closed") =>
          /\ outcome' # "error"
          /\ conversation_history' = <<>>
          /\ pc' = "chat" ]_vars

\* C29 (stable ownership): a connect that succeeds leaves every tool name
\* that had an owner with that owner, and leaves its catalog entry as it was.
C29_StableOwnership ==
    [][ (pc = "init" /\ connects' = connects + 1 /\ connect_result'.outcome = "ok") =>
          \A n \in ToolNames : FindServer(sessions, n) # None =>
             /\ FindServer(sessions', n) = FindServer(sessions, n)
             /\ \E i \in 1..Len(available_tools), j \in 1..Len(available_tools') :
                   /\ available_tools[i].name = n
                   /\ available_tools'[j] = available_tools[i] ]_vars

\* C30 (result folding): when a tool call has returned, the turn appended
\* last holds one tool_result segment whose content is the content of the
\* decoded result use_tool returned for what call_tool answered, item by
\* item, and whose id is the id of the tool_use that was dispatched.
C30_ResultFolding ==
    [][ (pc = "tool" /\ pc' = "model") =>
          /\ tool_result' = decode_results(result')
          /\ LET seg == Last(conversation_history').content
             IN  /\ Len(seg) = 1
                 /\ seg[1].type = "tool_result"
                 /\ seg[1].content = tool_result'.content
                 /\ seg[1].tool_use_id = content.id
                 /\ \E k \in 1..Len(response) :
                       IsFirstToolUse(response, k) /\ response[k].id = content.id ]_vars

\* A result of two items, an unescaped text and an image, has been folded
\* into the transcript.
C30_Witness ==
    /\ pc = "model"
    /\ tool_result # NoResult
    /\ Len(tool_result.content) = 2
    /\ tool_result.content[1].text = <<"W">>
    /\ Last(conversation_history).content[1].content[2].type = "image"

\* The tool_use segments of a turn's content.
ToolUses(ac) == {j \in 1..Len(ac) : ac[j].type = "tool_use"}

\* C31 (stored assistant turn is a prefix): the assistant turn appended when
\* a tool call has returned holds the segments of the reply up to its first
\* tool call, that one included, in order, and nothing after it; every
\* assistant turn of the transcript has at most one tool call, as its last
\* segment.
C31_StoredPrefix ==
    [][ /\ (pc = "tool" /\ pc' = "model") =>
              \E k \in 1..Len(response) :
                 /\ IsFirstToolUse(response, k)
                 /\ LET turn == conversation_history'[Len(conversation_history') - 1]
                    IN  /\ turn.role = "assistant"
                        /\ Len(turn.content) = k
                        /\ \A i \in 1..k :
                              /\ turn.content[i].type = response[i].type
                              /\ response[i].type = "text" =>
                                    turn.content[i].text = response[i].text
                              /\ response[i].type = "tool_use" =>
                                    turn.content[i].id = response[i].id
        /\ \A t \in 1..Len(conversation_history') :
              conversation_history'[t].role = "assistant" =>
                 LET ac == conversation_history'[t].content
                 IN  /\ Cardinality(ToolUses(ac)) <= 1
                     /\ ToolUses(ac) \subseteq {Len(ac)} ]_vars

\* A reply of two tool calls has been processed: the stored turn has one
\* segment.
C31_Witness ==
    /\ pc = "model"
    /\ tool_result # NoResult
    /\ Len(response) = 2
    /\ ToolUses(response) = {1, 2}
    /\ Len(conversation_history[Len(conversation_history) - 1].content) = 1

\* C32 (dispatch failure frame): when use_tool raises, for a tool no server
\* owns or because call_tool failed, the round is over with an error and the
\* transcript is the one the reply was received with: it does not change in
\* the step that receives the reply and calls use_tool, nor in the step in
\* which call_tool fails.
C32_DispatchFailureFrame ==
    [][ /\ (ReplyArrives /\ HasToolUse(response')) =>
              /\ pc' \in {"tool", "idle"}
              /\ conversation_history' = conversation_history
              /\ pc' = "idle" => outcome' = "error"
        /\ (pc = "tool" /\ pc' # "model") =>
              /\ pc' = "idle"
              /\ outcome' = "error"
              /\ conversation_history' = conversation_history ]_vars

\* A second tool call of a round has failed at the server: the transcript
\* ends with the result of the first.
C32_Witness ==
    /\ pc = "idle"
    /\ outcome = "error"
    /\ trace = <<"M", "T", "D", "M", "T", "D">>
    /\ Total(received) = 2
    /\ Len(conversation_history) = 3
    /\ Last(conversation_history).content[1].type = "tool_result"

\* C33 (role alternation): the transcript of every model call starts with a
\* user turn, alternates user and assistant turns, and ends with a user turn.
C33_RoleAlternation ==
    request.kind = "create" =>
        /\ request.messages # <<>>
        /\ request.messages[1].role = "user"
        /\ Alternates(request.messages)
        /\ Last(request.messages).role = "user"

\* C34 (catalog and dispatch agree): a tool name has an entry in the catalog
\* exactly when use_tool finds a server for it, and then the entry is a
\* descriptor of that server's tool list, as is the schema of that name in
\* the tool list of a model call in flight.
C34_CatalogDispatchAgree ==
    \A n \in ToolNames :
       LET entries == {i \in 1..Len(available_tools) : available_tools[i].name = n}
           owner == FindServer(sessions, n)
       IN  /\ (entries # {}) <=> (owner # None)
           /\ \A i \in entries :
                 \E s \in 1..Len(sessions) :
                    /\ sessions[s].path = owner
                    /\ \E j \in 1..Len(sessions[s].tools) :
                          /\ sessions[s].tools[j] = available_tools[i]
                          /\ request.kind = "create" =>
                                \E r \in 1..Len(request.tools) :
                                   /\ request.tools[r].name = n
                                   /\ request.tools[r].description =
                                         sessions[s].tools[j].description
                                   /\ request.tools[r].input_schema =
                                         sessions[s].tools[j].inputSchema

\* A tool call is in flight to the server registered first, b.js, for a tool
\* that a.py exposes too.
C34_Witness ==
    /\ pc = "tool"
    /\ Len(sessions) = 2
    /\ sessions[1].path = "b.js"
    /\ inflight.server = "b.js"
    /\ \E j \in 1..Len(sessions[2].tools) : sessions[2].tools[j].name = inflight.name

\* C35 (model switch takes effect): every model call in flight carries the
\* model selected in the session, and the client's model is the selected one
\* whenever a call can be issued.
C35_ModelSwitch ==
    /\ request.kind = "create" => request.model = model
    /\ pc \in {"idle", "model", "tool"} => client_model = model

\* A call is in flight with a model selected after an earlier call had been
\* made.
C35_Witness ==
    /\ request.kind = "create"
    /\ request.model # DefaultModel
    /\ calls >= 2
    /\ Total(received) >= 1

\* C36 (unsupported script type): a connect_to_server call with a path that
\* is not empty and ends in neither .py nor .js raises before anything is
\* launched: the exit stack holds what it held, and the registry and the
\* catalog are as they were.
C36_UnsupportedScript ==
    [][ (/\ pc = "init"
         /\ connects' = connects + 1
         /\ connect_result'.path # ""
         /\ ~(is_python(connect_result'.path) \/ is_js(connect_result'.path))) =>
          /\ pc' = "raised"
          /\ connect_result'.outcome = "raised"
          /\ connect_result'.at \notin Steps
          /\ exit_stack' = exit_stack
          /\ unreleased' = unreleased
          /\ sessions' = sessions
          /\ available_tools' = available_tools ]_vars

\* A server is connected, and the connect of a .txt path has raised: the
\* exit stack holds the channel of the first server only.
C36_Witness ==
    /\ pc = "raised"
    /\ connect_result.path = "c.txt"
    /\ Len(sessions) = 1
    /\ exit_stack = <<sessions[1].path>>
    /\ available_tools # <<>>

\* C37. Image generation length check: a generate_image_from_text call whose
\* prompts and file_names differ in length ends in the ValueError and changes
\* nothing: the directory is not created, every file is still there with its
\* content even when clear_directory_before_generation is true, and no image
\* is generated or written.
C37_LengthCheck ==
    [][ (/\ image_call'.n = image_call.n + 1
         /\ Len(image_call'.prompts) # Len(image_call'.file_names)) =>
          /\ image_call'.outcome = "ValueError"
          /\ image_call'.file_paths = <<>>
          /\ dir_exists' = dir_exists
          /\ files' = files
          /\ generated' = generated ]_vars

\* A call with two prompts, one file name and the clear flag was rejected
\* where the directory held two files: both are still there.
C37_Witness ==
    /\ image_call.outcome = "ValueError"
    /\ image_call.clear
    /\ Len(image_call.prompts) = 2
    /\ Len(image_call.file_names) = 1
    /\ generated = 0
    /\ dir_exists
    /\ DOMAIN files = {"old.png", "f.png"}
    /\ files["old.png"] = "old"
    /\ files["f.png"] = "old"

====
